---- MODULE Spec2Model ----
(***************************************************************************)
(* A model of the arena allocator of src/src/lib.rs: Block (one buffer     *)
(* with a bump cursor), Arena (a Vec of blocks, first-fit routing, growth, *)
(* reset, snapshot / rewind_to / scope).                                   *)
(*                                                                         *)
(* Addresses are modelled as integers.  The system allocator is the        *)
(* environment: it hands out any free, suitably aligned extent of a small  *)
(* heap.  The Vec<UnsafeCell<Block>> buffer lives on the same heap; its    *)
(* address matters because Block::remaining() reads the ADDRESS of the     *)
(* cursor cell (Cell::as_ptr), not the cursor stored in it.                *)
(***************************************************************************)
EXTENDS Integers, Sequences, Bags

(***************************************************************************)
(* Target constants.                                                       *)
(***************************************************************************)
\* size_of::<usize>() = align_of::<usize>() on the 64-bit target
UsizeBytes == 8

\* Width of usize in the model.  TLC's integers are 32-bit, so the 64-bit
\* usize is modelled 30 bits wide; what matters is kept: a wrapped
\* difference of two addresses exceeds every Layout size (<= isize::MAX).
PtrBits == 30

UsizeModulus == 2 ^ PtrBits

IsizeMax == (2 ^ (PtrBits - 1)) - 1

\* #[repr(C)] struct Block { start_ptr, end_ptr, curr_ptr, size }: four
\* pointer-sized fields, curr_ptr is the third.
BlockStructBytes == 4 * UsizeBytes

CurrPtrFieldOffset == 2 * UsizeBytes

(***************************************************************************)
(* Bounds of the model.                                                    *)
(***************************************************************************)
\* the heap has HeapSlots usize-aligned slots of UsizeBytes bytes
HeapSlots == 14

\* longest slice / string passed to alloc_slice, copy_slice, alloc_str
MaxLen == 3

\* most snapshots alive at once: the scopes entered and not yet left, plus
\* the snapshot the caller holds
MaxSnapshots == 1

HeapBase == UsizeBytes

HeapTop == HeapBase + UsizeBytes * HeapSlots

HeapAddrs == { HeapBase + UsizeBytes * k : k \in 0..(HeapSlots - 1) }

\* block sizes passed to Arena::with_block_size
BlockSizes == {8}

\* element types T: size_of::<T>(), align_of::<T>()
\*   (), u16, u64, [u128; 2]
AllocTypes == { [size |-> 0, align |-> 1], [size |-> 2, align |-> 2],
                [size |-> 8, align |-> 8], [size |-> 32, align |-> 16] }

SliceTypes == { [size |-> 1, align |-> 1], [size |-> 8, align |-> 8] }

\* lengths: up to MaxLen, and one length whose byte size overflows isize
Lengths == (0..MaxLen) \cup {IsizeMax}

\* the layouts the four allocating entry points pass to try_alloc
Layouts ==
    { [size |-> t.size, align |-> t.align] : t \in AllocTypes }
    \cup { [size |-> t.size * n, align |-> t.align] : t \in SliceTypes, n \in 0..MaxLen }

VARIABLES
    blocks,           \* Arena.blocks: sequence of Block records
    block_size,       \* Arena.block_size
    vec_base,         \* address of the Vec's buffer holding the Block structs
    overflow_checks,  \* build profile: TRUE = arithmetic overflow panics
    held,             \* an ArenaSnapshot the caller holds (<<>> or <<snap>>)
    frames,           \* active Arena::scope calls, innermost last
    halted,           \* the thread has panicked
    last,             \* the last call and its result
    mem,              \* the bytes of each block's buffer
    live,             \* bag of the addresses of the regions handed out and not reclaimed
    deallocs,         \* the dealloc calls of the Drop of each block
    main              \* main(): where the program is, and its locals

vars == <<blocks, block_size, vec_base, overflow_checks, held, frames, halted, last,
          mem, live, deallocs, main>>

(***************************************************************************)
(* Block                                                                   *)
(***************************************************************************)
\* Block::new(size) given the address the system allocator returned
NewBlock(ptr, size) ==
    [start_ptr |-> ptr, end_ptr |-> ptr + size, curr_ptr |-> ptr, size |-> size]

\* AlignUp with the rounding lost: the mask applied to old_ptr itself
AlignDown(old_ptr, alignment) == old_ptr - (old_ptr % alignment)

\* ((old_ptr + alignment - 1) & !(alignment - 1)); alignment is a power of
\* two, so the mask clears (old_ptr + alignment - 1) mod alignment
AlignUp(old_ptr, alignment) ==
    (old_ptr + alignment - 1) - ((old_ptr + alignment - 1) % alignment)

\* Block::alloc without the comparison against end_ptr
BlockAllocUnchecked(b, size, alignment) ==
    [ok |-> TRUE,
     block |-> [b EXCEPT !.curr_ptr = b.curr_ptr + size],
     ptr |-> b.curr_ptr]

\* Block::alloc(layout).  aligned.add(size) leaves the buffer exactly when
\* the call fails; the sum cannot wrap (addresses are far below
\* UsizeModulus - IsizeMax), so every build computes it as written.
BlockAlloc(b, size, alignment) ==
    LET aligned == AlignUp(b.curr_ptr, alignment)
        new_ptr == aligned + size
    IN  IF new_ptr > b.end_ptr
        THEN [ok |-> FALSE, block |-> b, ptr |-> 0]
        ELSE [ok |-> TRUE, block |-> [b EXCEPT !.curr_ptr = new_ptr], ptr |-> aligned]

\* the buffer alloc(layout) returns: size bytes, not initialised.  A byte
\* is "zero" (it reads zero) or "any" (not initialised, or written by the
\* caller with a value of its choice)
Fresh(size) == [k \in 1..size |-> "any"]

\* rewind_to that forgets the save point
BlockRewindToStart(b, save_point) == [b EXCEPT !.curr_ptr = b.start_ptr]

\* Block::rewind_to(save_point)
BlockRewindTo(b, save_point) == [b EXCEPT !.curr_ptr = save_point]

\* Block::reset()
BlockReset(b) == [b EXCEPT !.curr_ptr = b.start_ptr]

\* address of the curr_ptr cell of block number i (1-based) in the Vec buffer
CurrPtrCellAddr(base, i) == base + (i - 1) * BlockStructBytes + CurrPtrFieldOffset

\* the subtraction of Block::remaining() underflows
RemainingOverflows(b, cell) == b.end_ptr < cell

\* Block::remaining(): (end_ptr as usize) - (curr_ptr.as_ptr() as usize),
\* where Cell::as_ptr is the address of the cell; wrapping in a build
\* without overflow checks
Remaining(b, cell) == (b.end_ptr - cell) % UsizeModulus

(***************************************************************************)
(* The system allocator and the Vec buffer                                 *)
(***************************************************************************)
Disjoint(lo1, hi1, lo2, hi2) == hi1 <= lo2 \/ hi2 <= lo1

BlockExtentsFree(bs, lo, hi) ==
    \A i \in 1..Len(bs) : Disjoint(lo, hi, bs[i].start_ptr, bs[i].end_ptr)

\* the system allocator is modelled by two placement policies: it returns
\* the lowest or the highest free address that fits
Extremes(S) ==
    { a \in S : (\A b \in S : a <= b) \/ (\A b \in S : a >= b) }

\* addresses alloc(Layout(size, align_of::<usize>())) may return for a new
\* block buffer: free of the live block buffers and of the Vec buffer
BlockPlacements(bs, base, size) ==
    Extremes({ p \in HeapAddrs :
        /\ p + size <= HeapTop
        /\ BlockExtentsFree(bs, p, p + size)
        /\ Disjoint(p, p + size, base, base + Len(bs) * BlockStructBytes) })

\* addresses of the Vec buffer once it holds the blocks bs (the buffer may
\* stay or move when push reallocates)
VecPlacements(bs) ==
    Extremes({ v \in HeapAddrs :
        /\ v + Len(bs) * BlockStructBytes <= HeapTop
        /\ BlockExtentsFree(bs, v, v + Len(bs) * BlockStructBytes) })

(***************************************************************************)
(* Arena                                                                   *)
(***************************************************************************)
\* the blocks try_get_block looks at before it returns: block i is reached
\* when no earlier block qualified
Qualifies(bs, base, i, size) ==
    \/ RemainingOverflows(bs[i], CurrPtrCellAddr(base, i))
    \/ Remaining(bs[i], CurrPtrCellAddr(base, i)) > size

\* Arena::try_get_block(layout): index of the first block with
\* remaining() > layout.size(), 0 for None
TryGetBlock(bs, base, size) ==
    IF \E i \in 1..Len(bs) : Qualifies(bs, base, i, size)
    THEN CHOOSE i \in 1..Len(bs) :
            /\ Qualifies(bs, base, i, size)
            /\ \A j \in 1..(i - 1) : ~Qualifies(bs, base, j, size)
    ELSE 0

\* the scan of try_get_block evaluates an underflowing remaining()
ScanOverflows(bs, base, size) ==
    LET i == TryGetBlock(bs, base, size)
    IN  i # 0 /\ RemainingOverflows(bs[i], CurrPtrCellAddr(base, i))

\* snapshot() recording the first block instead of the last
SnapshotOfFirst(bs) == [block_idx |-> 1, offset |-> bs[1].curr_ptr]

\* Arena::snapshot()
SnapshotOf(bs) ==
    [block_idx |-> Len(bs), offset |-> bs[Len(bs)].curr_ptr]

\* rewind_to with skip(snapshot.block_idx): the snapshot's block is reset too
RewindBlocksSkipOff(bs, snapshot) ==
    [i \in 1..Len(bs) |->
        IF i >= snapshot.block_idx THEN BlockReset(bs[i]) ELSE bs[i]]

\* rewind_to taking the last block for an index past the end
RewindBlocksClamped(bs, snapshot) ==
    [i \in 1..Len(bs) |->
        IF i = snapshot.block_idx \/ (i = Len(bs) /\ snapshot.block_idx > Len(bs))
        THEN BlockRewindTo(bs[i], snapshot.offset)
        ELSE IF i > snapshot.block_idx THEN BlockReset(bs[i])
        ELSE bs[i]]

\* Arena::rewind_to(snapshot); block_idx is 1-based here
RewindBlocks(bs, snapshot) ==
    [i \in 1..Len(bs) |->
        IF i = snapshot.block_idx THEN BlockRewindTo(bs[i], snapshot.offset)
        ELSE IF i > snapshot.block_idx THEN BlockReset(bs[i])
        ELSE bs[i]]

\* reset() releasing the blocks added since construction
ResetBlocksFirst(bs) == <<BlockReset(bs[1])>>

\* Arena::reset() / the cursor part of Arena::reset_zeroed()
ResetBlocks(bs) == [i \in 1..Len(bs) |-> BlockReset(bs[i])]

\* bytes used: sum over the blocks of cursor - start
RECURSIVE Used(_)
Used(bs) ==
    IF bs = <<>> THEN 0
    ELSE (Head(bs).curr_ptr - Head(bs).start_ptr) + Used(Tail(bs))

(***************************************************************************)
(* Layouts                                                                 *)
(***************************************************************************)
Max(a, b) == IF a >= b THEN a ELSE b

\* Layout::array::<T>(n) fails when n * size_of::<T>() exceeds
\* isize::MAX - (align - 1); the error becomes ArenaError::BadAlignment
LayoutArrayFails(t, n) ==
    t.size # 0 /\ n > (IsizeMax - (t.align - 1)) \div t.size

\* Layout::from_size_align(size, align) fails when size, rounded up to
\* align, exceeds isize::MAX
LayoutFromSizeAlignFails(size, alignment) == size > IsizeMax - (alignment - 1)

(***************************************************************************)
(* What the caller observes of the last call, and what it keeps            *)
(***************************************************************************)
\* last.op: the routine that ran last (the four allocating entry points
\* all end in try_alloc); last.res: what it returned.  A rewind also
\* records the snapshot it was given and whether that snapshot had been
\* taken by the call just before (fresh).
Idle == [op |-> "new", res |-> "ok"]

Did(op, res) == [op |-> op, res |-> res]

\* the snapshot a caller or a scope keeps
Plain(bs) == [snap |-> SnapshotOf(bs)]

\* the same with its history: the blocks as they were when it was taken,
\* and what ran since: "allocs" allocations only, "nested" also whole
\* scopes, "other" anything else
Tracked(bs) == [snap |-> SnapshotOf(bs), entry |-> bs, body |-> "allocs"]

Touch(fs) ==
    [k \in 1..Len(fs) |->
        IF "body" \in DOMAIN fs[k] THEN [fs[k] EXCEPT !.body = "other"] ELSE fs[k]]

Nest(fs) ==
    [k \in 1..Len(fs) |->
        IF "body" \in DOMAIN fs[k] /\ fs[k].body = "allocs"
        THEN [fs[k] EXCEPT !.body = "nested"] ELSE fs[k]]

(***************************************************************************)
(* Init: the state after Arena::with_block_size(size) returned Ok          *)
(***************************************************************************)
Init ==
    /\ block_size \in BlockSizes
    /\ overflow_checks \in BOOLEAN
    /\ \E p \in BlockPlacements(<<>>, HeapBase, block_size) :
            blocks = <<NewBlock(p, block_size)>>
    /\ vec_base \in VecPlacements(blocks)
    /\ held = <<>>
    /\ frames = <<>>
    /\ halted = FALSE
    /\ last = Idle
    /\ mem = <<Fresh(block_size)>>
    /\ live = EmptyBag
    /\ deallocs = <<>>
    /\ main = [pc |-> "alloc", items |-> 0, s_len |-> 0]

(***************************************************************************)
(* Arena::try_alloc(layout), with Arena::alloc_new_block and Block::alloc  *)
(***************************************************************************)
\* try_get_block panics on the underflow of remaining()
TryAllocPanics(size, alignment) ==
    /\ overflow_checks
    /\ ScanOverflows(blocks, vec_base, size)
    /\ halted' = TRUE
    /\ last' = Did("try_alloc", "panic")
    /\ UNCHANGED <<blocks, block_size, vec_base, overflow_checks, held, frames>>

\* try_get_block returned Some(block): block.alloc(layout)
TryAllocExisting(size, alignment) ==
    LET idx == TryGetBlock(blocks, vec_base, size)
    IN  /\ ~(overflow_checks /\ ScanOverflows(blocks, vec_base, size))
        /\ idx # 0
        /\ LET r == BlockAlloc(blocks[idx], size, alignment)
           IN  /\ blocks' = [blocks EXCEPT ![idx] = r.block]
               /\ last' = Did("try_alloc", IF r.ok THEN "ok" ELSE "InsufficientMemory")
        /\ UNCHANGED <<block_size, vec_base, overflow_checks, held, frames, halted>>

\* try_get_block returned None and Block::new fails: the layout is
\* invalid, or the system allocator returns null
TryAllocNewBlockFails(size, alignment) ==
    LET nsize == Max(block_size, size)
    IN  /\ TryGetBlock(blocks, vec_base, size) = 0
        /\ \/ /\ LayoutFromSizeAlignFails(nsize, UsizeBytes)
              /\ last' = Did("try_alloc", "BadAlignment")
           \/ /\ ~LayoutFromSizeAlignFails(nsize, UsizeBytes)
              /\ BlockPlacements(blocks, vec_base, nsize) = {}
              /\ last' = Did("try_alloc", "InsufficientMemory")
        /\ UNCHANGED <<blocks, block_size, vec_base, overflow_checks, held, frames, halted>>

\* try_get_block returned None: Block::new(max(block_size, size)), push
\* (the Vec buffer may move), then block.alloc(layout) on the new block
TryAllocNewBlock(size, alignment) ==
    LET nsize == Max(block_size, size)
    IN  /\ TryGetBlock(blocks, vec_base, size) = 0
        /\ ~LayoutFromSizeAlignFails(nsize, UsizeBytes)
        /\ \E p \in BlockPlacements(blocks, vec_base, nsize) :
             LET r == BlockAlloc(NewBlock(p, nsize), size, alignment)
             IN  /\ blocks' = Append(blocks, r.block)
                 /\ vec_base' \in VecPlacements(blocks')
                 /\ last' = Did("try_alloc", IF r.ok THEN "ok" ELSE "InsufficientMemory")
        /\ UNCHANGED <<block_size, overflow_checks, held, frames, halted>>

TryAlloc(size, alignment) ==
    \/ TryAllocPanics(size, alignment)
    \/ TryAllocExisting(size, alignment)
    \/ TryAllocNewBlockFails(size, alignment)
    \/ TryAllocNewBlock(size, alignment)

\* Layout::array::<T>(length)? returned Err(BadAlignment)
LayoutError(op, t, n) ==
    /\ LayoutArrayFails(t, n)
    /\ last' = Did(op, "BadAlignment")
    /\ UNCHANGED <<blocks, block_size, vec_base, overflow_checks, held, frames, halted>>

(***************************************************************************)
(* The operations of Arena                                                 *)
(***************************************************************************)
\* Arena::alloc::<T>(obj)
Alloc ==
    /\ ~halted
    /\ \E t \in AllocTypes : TryAlloc(t.size, t.align)

\* Arena::alloc_slice::<T>(length)
AllocSlice ==
    /\ ~halted
    /\ \E t \in SliceTypes, n \in Lengths :
          \/ LayoutError("alloc_slice", t, n)
          \/ /\ ~LayoutArrayFails(t, n)
             /\ TryAlloc(t.size * n, t.align)

\* Arena::copy_slice::<T>(slice)
CopySlice ==
    /\ ~halted
    /\ \E t \in SliceTypes, n \in 0..MaxLen : TryAlloc(t.size * n, t.align)

\* Arena::alloc_str(str): copy_slice of the bytes
AllocStr ==
    /\ ~halted
    /\ \E n \in 0..MaxLen : TryAlloc(n, 1)

\* Arena::reset()
Reset ==
    /\ ~halted
    /\ blocks' = ResetBlocks(blocks)
    /\ frames' = Touch(frames)
    /\ held' = Touch(held)
    /\ last' = Did("reset", "ok")
    /\ UNCHANGED <<block_size, vec_base, overflow_checks, halted>>

\* Arena::reset_zeroed()
ResetZeroed ==
    /\ ~halted
    /\ blocks' = ResetBlocks(blocks)
    /\ frames' = Touch(frames)
    /\ held' = Touch(held)
    /\ last' = Did("reset_zeroed", "ok")
    /\ UNCHANGED <<block_size, vec_base, overflow_checks, halted>>

\* Arena::snapshot(), the caller keeps the result as kept
TakeSnapshot(kept, most) ==
    /\ ~halted
    /\ Len(frames) < most
    /\ held' = <<kept>>
    /\ last' = Did("snapshot", "ok")
    /\ UNCHANGED <<blocks, block_size, vec_base, overflow_checks, frames, halted>>

Snapshot == TakeSnapshot(Plain(blocks), MaxSnapshots)

\* Arena::rewind_to(snapshot) with the snapshot the caller holds; the
\* snapshot is moved into the call
RewindTo ==
    /\ ~halted
    /\ held # <<>>
    /\ blocks' = RewindBlocks(blocks, held[1].snap)
    /\ held' = <<>>
    /\ frames' = Touch(frames)
    /\ last' = [op |-> "rewind_to", res |-> "ok", snap |-> held[1].snap,
                fresh |-> last.op = "snapshot"]
    /\ UNCHANGED <<block_size, vec_base, overflow_checks, halted>>

\* Arena::scope(func) up to the call of func: let snapshot = self.snapshot()
EnterScope(kept) ==
    /\ ~halted
    /\ frames' = Append(Nest(frames), kept)
    /\ held' = Touch(held)
    /\ last' = Did("scope_enter", "ok")
    /\ UNCHANGED <<blocks, block_size, vec_base, overflow_checks, halted>>

ScopeEnter ==
    /\ Len(frames) + Len(held) < MaxSnapshots
    /\ EnterScope(Plain(blocks))

\* Arena::scope(func) from the return of func: self.rewind_to(snapshot)
ScopeExit ==
    /\ ~halted
    /\ frames # <<>>
    /\ blocks' = RewindBlocks(blocks, frames[Len(frames)].snap)
    /\ frames' = SubSeq(frames, 1, Len(frames) - 1)
    /\ held' = Touch(held)
    /\ last' = [op |-> "scope_exit", res |-> "ok", snap |-> frames[Len(frames)].snap,
                fresh |-> last.op = "scope_enter"]
    /\ UNCHANGED <<block_size, vec_base, overflow_checks, halted>>

\* Spec, SpecTracked and SpecBlock follow the cursors only.  The contents
\* of the buffers, the regions handed out, the drop of the arena and the
\* program of main.rs are followed by SpecBytes, SpecLive, SpecDrop and
\* SpecMain below.
CursorsOnly == UNCHANGED <<mem, live, deallocs, main>>

Next ==
    \/ Alloc /\ CursorsOnly
    \/ AllocSlice /\ CursorsOnly
    \/ CopySlice /\ CursorsOnly
    \/ AllocStr /\ CursorsOnly
    \/ Reset /\ CursorsOnly
    \/ ResetZeroed /\ CursorsOnly
    \/ Snapshot /\ CursorsOnly
    \/ RewindTo /\ CursorsOnly
    \/ ScopeEnter /\ CursorsOnly
    \/ ScopeExit /\ CursorsOnly

Spec == Init /\ [][Next]_vars

(***************************************************************************)
(* Scopes and snapshots with their history, nested one level deeper        *)
(***************************************************************************)
SnapshotTracked == TakeSnapshot(Tracked(blocks), MaxSnapshots + 1)

ScopeEnterTracked ==
    /\ Len(frames) + Len(held) < MaxSnapshots + 1
    /\ EnterScope(Tracked(blocks))

\* the bodies allocate through alloc and alloc_str
NextTracked ==
    \/ Alloc /\ CursorsOnly
    \/ AllocStr /\ CursorsOnly
    \/ SnapshotTracked /\ CursorsOnly
    \/ RewindTo /\ CursorsOnly
    \/ ScopeEnterTracked /\ CursorsOnly
    \/ ScopeExit /\ CursorsOnly

SpecTracked == Init /\ [][NextTracked]_vars

(***************************************************************************)
(* Block::alloc on its own: any layout against the first block             *)
(***************************************************************************)
BlockAllocCall ==
    \E l \in Layouts :
        LET r == BlockAlloc(blocks[1], l.size, l.align)
        IN  /\ blocks' = [blocks EXCEPT ![1] = r.block]
            /\ last' = [op |-> "Block::alloc",
                        res |-> IF r.ok THEN "ok" ELSE "InsufficientMemory",
                        ptr |-> r.ptr, size |-> l.size, align |-> l.align,
                        old |-> blocks[1].curr_ptr]
            /\ UNCHANGED <<block_size, vec_base, overflow_checks, held, frames, halted>>

BlockResetCall ==
    /\ blocks' = [blocks EXCEPT ![1] = BlockReset(@)]
    /\ last' = Did("Block::reset", "ok")
    /\ UNCHANGED <<block_size, vec_base, overflow_checks, held, frames, halted>>

NextBlock ==
    \/ BlockAllocCall /\ CursorsOnly
    \/ BlockResetCall /\ CursorsOnly

SpecBlock == Init /\ [][NextBlock]_vars

(***************************************************************************)
(* The contents of the buffers                                             *)
(***************************************************************************)
\* the buffers once alloc_new_block has pushed a block
Grown(m, bs2) ==
    IF Len(bs2) > Len(m) THEN Append(m, Fresh(bs2[Len(bs2)].size)) ELSE m

\* the block Block::alloc moved the cursor of
ServedBy(bs, bs2) ==
    CHOOSE i \in 1..Len(bs2) : i > Len(bs) \/ bs2[i].curr_ptr # bs[i].curr_ptr

\* ptr::write, write_bytes or copy_nonoverlapping to the pointer returned:
\* the size bytes that end at the new cursor become v
Stored(m, bs, bs2, size, v) ==
    IF size = 0 THEN Grown(m, bs2)
    ELSE LET i == ServedBy(bs, bs2)
             hi == bs2[i].curr_ptr - bs2[i].start_ptr
         IN  [Grown(m, bs2) EXCEPT
                ![i] = [k \in 1..Len(@) |->
                          IF k > hi - size /\ k <= hi THEN v ELSE @[k]]]

\* write_bytes of Block::reset_zeroed reaching only the bytes in use
BlockZeroedUsed(b, bytes) ==
    [k \in 1..b.size |->
        IF k <= b.curr_ptr - b.start_ptr THEN "zero" ELSE bytes[k]]

\* Block::reset_zeroed(): write_bytes(start_ptr, 0, size)
BlockZeroed(b, bytes) == [k \in 1..b.size |-> "zero"]

\* try_alloc(layout)? and then the write of size bytes v
TryAllocStore(size, alignment, v) ==
    /\ TryAlloc(size, alignment)
    /\ mem' = IF last'.res = "ok"
              THEN Stored(mem, blocks, blocks', size, v)
              ELSE Grown(mem, blocks')
    /\ UNCHANGED <<live, deallocs, main>>

\* Arena::alloc::<T>(obj): ptr::write(ptr, obj)
AllocBytes ==
    /\ ~halted
    /\ \E t \in AllocTypes : TryAllocStore(t.size, t.align, "any")

\* Arena::copy_slice::<T>(slice): copy_nonoverlapping(slice, ptr, len)
CopySliceBytes ==
    /\ ~halted
    /\ \E t \in SliceTypes, n \in 0..MaxLen : TryAllocStore(t.size * n, t.align, "any")

\* Arena::reset(): the buffers keep their bytes
ResetBytes == Reset /\ CursorsOnly

\* Arena::reset_zeroed(): Block::reset_zeroed() on every block
ResetZeroedBytes ==
    /\ ResetZeroed
    /\ mem' = [i \in 1..Len(blocks) |-> BlockZeroed(blocks[i], mem[i])]
    /\ UNCHANGED <<live, deallocs, main>>

\* the callers write through alloc and copy_slice
NextBytes ==
    \/ AllocBytes
    \/ CopySliceBytes
    \/ ResetBytes
    \/ ResetZeroedBytes

SpecBytes == Init /\ [][NextBytes]_vars

(***************************************************************************)
(* The regions handed out                                                  *)
(***************************************************************************)
\* the addresses of [lo, hi)
Bytes(lo, hi) == lo..(hi - 1)

\* the region try_alloc returned: the size bytes that end at the cursor
\* Block::alloc moved
RegionOf(bs, bs2, size) ==
    IF size = 0 THEN {}
    ELSE LET i == ServedBy(bs, bs2)
         IN  Bytes(bs2[i].curr_ptr - size, bs2[i].curr_ptr)

\* what rewind_to(snapshot) does not discard: the blocks before the
\* snapshot's block and, in that block, the bytes below the offset
Kept(lv, bs, snapshot) ==
    LET keep == { a \in BagToSet(lv) : \E i \in 1..Len(bs) :
                    /\ bs[i].start_ptr <= a
                    /\ a < bs[i].end_ptr
                    /\ \/ i < snapshot.block_idx
                       \/ i = snapshot.block_idx /\ a < snapshot.offset }
    IN  [a \in keep |-> lv[a]]

\* try_alloc(layout)?: the caller holds the region returned
TryAllocLive(size, alignment) ==
    /\ TryAlloc(size, alignment)
    /\ live' = IF last'.res = "ok"
               THEN live (+) SetToBag(RegionOf(blocks, blocks', size))
               ELSE live
    /\ UNCHANGED <<mem, deallocs, main>>

AllocLive ==
    /\ ~halted
    /\ \E t \in AllocTypes : TryAllocLive(t.size, t.align)

CopySliceLive ==
    /\ ~halted
    /\ \E t \in SliceTypes, n \in 0..MaxLen : TryAllocLive(t.size * n, t.align)

\* reset() discards every region
ResetLive ==
    /\ Reset
    /\ live' = EmptyBag
    /\ UNCHANGED <<mem, deallocs, main>>

SnapshotLive == Snapshot /\ CursorsOnly

RewindToLive ==
    /\ RewindTo
    /\ live' = Kept(live, blocks, held[1].snap)
    /\ UNCHANGED <<mem, deallocs, main>>

\* a scope is followed as the snapshot() and the rewind_to(snapshot) it
\* consists of
NextLive ==
    \/ AllocLive
    \/ CopySliceLive
    \/ ResetLive
    \/ SnapshotLive
    \/ RewindToLive

SpecLive == Init /\ [][NextLive]_vars

(***************************************************************************)
(* Snapshots of another arena                                              *)
(***************************************************************************)
\* what snapshot() returns on an arena that has one or two blocks more
\* than bs: a block index past the end of bs, and an address of that arena
ForeignSnapshots(bs) ==
    { [block_idx |-> i, offset |-> p] :
        i \in (Len(bs) + 1)..(Len(bs) + 2), p \in Extremes(HeapAddrs) }

\* Arena::rewind_to(snapshot) with such a snapshot
RewindToForeign ==
    /\ ~halted
    /\ \E s \in ForeignSnapshots(blocks) :
          /\ blocks' = RewindBlocks(blocks, s)
          /\ last' = [op |-> "rewind_to", res |-> "ok", snap |-> s, fresh |-> FALSE]
    /\ frames' = Touch(frames)
    /\ UNCHANGED <<block_size, vec_base, overflow_checks, held, halted>>

NextForeign ==
    \/ Alloc /\ CursorsOnly
    \/ CopySlice /\ CursorsOnly
    \/ Reset /\ CursorsOnly
    \/ RewindToForeign /\ CursorsOnly

SpecForeign == Init /\ [][NextForeign]_vars

(***************************************************************************)
(* The drop of the arena                                                   *)
(***************************************************************************)
\* Block::new: Layout::from_size_align(size, align_of::<usize>())
BlockNewLayout(size) == [size |-> size, align |-> UsizeBytes]

\* Drop for Block: Layout::from_size_align_unchecked(self.size, align_of::<u8>())
BlockDropLayout(b) == [size |-> b.size, align |-> 1]

\* Drop for Block: dealloc(self.start_ptr.as_ptr(), layout)
BlockDrop(b) == [ptr |-> b.start_ptr, layout |-> BlockDropLayout(b)]

\* the arena has not been dropped
Owned == deallocs = <<>>

\* the drop of the Arena: the Vec drops every block, in order
DropArena ==
    /\ Owned
    /\ deallocs' = [i \in 1..Len(blocks) |-> BlockDrop(blocks[i])]
    /\ UNCHANGED <<blocks, block_size, vec_base, overflow_checks, held, frames,
                   halted, last, mem, live, main>>

NextDrop ==
    \/ Owned /\ Alloc /\ CursorsOnly
    \/ Owned /\ CopySlice /\ CursorsOnly
    \/ Owned /\ Reset /\ CursorsOnly
    \/ DropArena

SpecDrop == Init /\ [][NextDrop]_vars

(***************************************************************************)
(* main.rs                                                                 *)
(***************************************************************************)
\* Arena::len(): bytes used
ArenaLen(bs) == Used(bs)

\* Arena::cap(): bytes available, the sizes of the blocks
RECURSIVE ArenaCap(_)
ArenaCap(bs) ==
    IF bs = <<>> THEN 0 ELSE Head(bs).size + ArenaCap(Tail(bs))

\* .expect(..) on the result of the call
Expect(next) == IF last'.res = "ok" THEN next ELSE "panicked"

\* let items = arena.alloc(value).expect(..)
MainAlloc ==
    /\ main.pc = "alloc"
    /\ \E t \in AllocTypes :
          /\ TryAlloc(t.size, t.align)
          /\ main' = [pc |-> Expect("alloc_str"), items |-> t.size, s_len |-> 0]
    /\ UNCHANGED <<mem, live, deallocs>>

\* let s_len = arena.alloc_str(str).expect(..).len()
MainAllocStr ==
    /\ main.pc = "alloc_str"
    /\ \E n \in 0..MaxLen :
          /\ TryAlloc(n, 1)
          /\ main' = [main EXCEPT !.pc = Expect("assert"), !.s_len = n]
    /\ UNCHANGED <<mem, live, deallocs>>

\* assert_eq!(arena.len(), size_of::<T>() + s_len)
MainAssert ==
    /\ main.pc = "assert"
    /\ main' = [main EXCEPT
                  !.pc = IF ArenaLen(blocks) = main.items + main.s_len
                         THEN "done" ELSE "panicked"]
    /\ UNCHANGED <<blocks, block_size, vec_base, overflow_checks, held, frames,
                   halted, last, mem, live, deallocs>>

NextMain ==
    \/ MainAlloc
    \/ MainAllocStr
    \/ MainAssert

SpecMain == Init /\ [][NextMain]_vars

(***************************************************************************)
(* Properties                                                              *)
(***************************************************************************)
AllocCall == Alloc \/ AllocSlice \/ CopySlice \/ AllocStr

\* the request fits block b: aligned cursor + size <= end
Fits(b, l) == AlignUp(b.curr_ptr, l.align) + l.size <= b.end_ptr

\* the routing the documentation describes: the lowest-indexed block whose
\* free bytes (end - cursor) strictly exceed the size, 0 when there is none
FirstFit(bs, size) ==
    IF \E i \in 1..Len(bs) : bs[i].end_ptr - bs[i].curr_ptr > size
    THEN CHOOSE i \in 1..Len(bs) :
            /\ bs[i].end_ptr - bs[i].curr_ptr > size
            /\ \A j \in 1..(i - 1) : ~(bs[j].end_ptr - bs[j].curr_ptr > size)
    ELSE 0

\* bytes-used is what it was for the blocks `entry`, and the blocks added
\* since are empty
Reclaimed(entry, bs) ==
    /\ Used(bs) = Used(entry)
    /\ \A i \in (Len(entry) + 1)..Len(bs) : bs[i].curr_ptr = bs[i].start_ptr

\* C1: when a scope whose body only allocated returns, bytes-used equals
\* bytes-used at scope entry and the blocks the body added are empty; the
\* same for snapshot(), allocations, rewind_to(snapshot).
C1_ScopeReclaimsAllocations ==
    [][ /\ ScopeExit =>
             (frames[Len(frames)].body = "allocs"
                 => Reclaimed(frames[Len(frames)].entry, blocks'))
        /\ RewindTo =>
             (held[1].body = "allocs" => Reclaimed(held[1].entry, blocks')) ]_vars

\* C2: in every reachable state every block has start <= cursor <= end.
C2_CursorWithinBlock ==
    \A i \in 1..Len(blocks) :
        /\ blocks[i].start_ptr <= blocks[i].curr_ptr
        /\ blocks[i].curr_ptr <= blocks[i].end_ptr

\* an allocation has just moved a cursor onto the end of its block, and a
\* rewind has just moved one back onto a recorded offset
C2_Witness ==
    /\ last.op = "rewind_to"
    /\ Len(blocks) = 2
    /\ blocks[1].curr_ptr = blocks[1].end_ptr
    /\ blocks[2].curr_ptr = last.snap.offset
    /\ blocks[2].curr_ptr > blocks[2].start_ptr

\* C3: Block::alloc(size, alignment), with aligned the cursor rounded up to
\* a multiple of alignment: if aligned + size > end it returns
\* InsufficientMemory and leaves the cursor; otherwise it returns aligned, a
\* multiple of alignment with [aligned, aligned + size) inside the block,
\* and the cursor becomes aligned + size, so used grows by padding + size.
C3_BlockAlloc ==
    last.op = "Block::alloc" =>
        LET b == blocks[1]
            aligned == CHOOSE a \in last.old..(last.old + last.align - 1) :
                          a % last.align = 0
        IN  IF aligned + last.size > b.end_ptr
            THEN /\ last.res = "InsufficientMemory"
                 /\ b.curr_ptr = last.old
            ELSE /\ last.res = "ok"
                 /\ last.ptr = aligned
                 /\ last.ptr % last.align = 0
                 /\ b.start_ptr <= last.ptr
                 /\ last.ptr + last.size <= b.end_ptr
                 /\ b.curr_ptr = aligned + last.size
                 /\ (b.curr_ptr - b.start_ptr) - (last.old - b.start_ptr)
                        = (aligned - last.old) + last.size

\* a successful Block::alloc that had to pad
C3_Witness ==
    /\ last.op = "Block::alloc"
    /\ last.res = "ok"
    /\ last.size > 0
    /\ last.ptr > last.old

\* C4: an allocation call that returns an error leaves the number of
\* blocks and every cursor as they were.
C4_ErrorLeavesArenaUnchanged ==
    [][ (AllocCall /\ last'.res \in {"InsufficientMemory", "BadAlignment"})
            => blocks' = blocks ]_vars

\* the call try_alloc(l) returns (it does not panic)
Returns(l) == ~halted /\ TryAlloc(l.size, l.align) /\ last'.res # "panic"

\* C5: a request is served from an existing block whenever some existing
\* block can hold it (aligned cursor + size <= end), and a block is added
\* only when no existing block can hold it.
C5_ServedWhereItFits ==
    [][ \A l \in Layouts :
          Returns(l) =>
             ((\E i \in 1..Len(blocks) : Fits(blocks[i], l))
                 => (last'.res = "ok" /\ Len(blocks') = Len(blocks))) ]_vars

\* C6: try_alloc uses the lowest-indexed block whose free bytes
\* (end - cursor) strictly exceed the size, and a later block only when
\* every earlier one fails that test.
C6_FirstFitInCreationOrder ==
    [][ \A l \in Layouts :
          Returns(l) =>
             LET k == FirstFit(blocks, l.size)
             IN  k # 0 =>
                    blocks' = [blocks EXCEPT
                                 ![k] = BlockAlloc(@, l.size, l.align).block] ]_vars

\* C7: when no existing block qualifies (and the system can provide the
\* buffer), exactly one block of size max(block_size, size) is appended and
\* the request is placed at offset 0 of it.
C7_NewBlockWhenNoneQualifies ==
    [][ \A l \in Layouts :
          (/\ Returns(l)
           /\ FirstFit(blocks, l.size) = 0
           /\ BlockPlacements(blocks, vec_base, Max(block_size, l.size)) # {}) =>
             /\ Len(blocks') = Len(blocks) + 1
             /\ SubSeq(blocks', 1, Len(blocks)) = blocks
             /\ blocks'[Len(blocks')].size = Max(block_size, l.size)
             /\ last'.res = "ok"
             /\ blocks'[Len(blocks')].curr_ptr
                    = blocks'[Len(blocks')].start_ptr + l.size ]_vars

\* C8: an outer scope that allocates and runs an inner scope that
\* allocates: when the inner scope exits, what it allocated is reclaimed
\* and no cursor is below its position at the inner entry; when the outer
\* scope exits, bytes-used is what it was at the outer entry.
C8_NestedScopes ==
    [][ ScopeExit =>
          LET f == frames[Len(frames)]
          IN  /\ (Len(frames) >= 2 /\ f.body = "allocs") =>
                    /\ Used(blocks') = Used(f.entry)
                    /\ \A i \in 1..Len(f.entry) :
                          blocks'[i].curr_ptr >= f.entry[i].curr_ptr
              /\ (Len(frames) = 1 /\ f.body = "nested") =>
                    Used(blocks') = Used(f.entry) ]_vars

\* C9: snapshot() immediately followed by rewind_to(that snapshot) changes
\* neither the block count nor any cursor.
C9_SnapshotRewindIsNoOp ==
    [][ (last.op = "snapshot" /\ RewindTo) => blocks' = blocks ]_vars

\* a rewind to a snapshot taken just before, in an arena of two used blocks
C9_Witness ==
    /\ last.op = "rewind_to"
    /\ last.fresh
    /\ Len(blocks) = 2
    /\ \A i \in 1..2 : blocks[i].curr_ptr > blocks[i].start_ptr

\* the effect of rewind_to(snapshot) on the blocks bs, giving bs2
RewindFrame(bs, bs2, snapshot) ==
    /\ Len(bs2) = Len(bs)
    /\ \A i \in 1..Len(bs) :
          /\ bs2[i].start_ptr = bs[i].start_ptr
          /\ bs2[i].end_ptr = bs[i].end_ptr
          /\ bs2[i].size = bs[i].size
          /\ i = snapshot.block_idx => bs2[i].curr_ptr = snapshot.offset
          /\ i > snapshot.block_idx => bs2[i].curr_ptr = bs[i].start_ptr
          /\ i < snapshot.block_idx => bs2[i].curr_ptr = bs[i].curr_ptr

\* C10: rewind_to(snapshot (i, off)) sets block i's cursor to off and the
\* cursor of every later block to its start; it leaves the cursors of the
\* earlier blocks, the number of blocks and every start, end and size.
C10_RewindFrame ==
    [][ /\ RewindTo => RewindFrame(blocks, blocks', held[1].snap)
        /\ ScopeExit => RewindFrame(blocks, blocks', frames[Len(frames)].snap) ]_vars

\* a rewind to a snapshot of the first of two blocks, taken mid-block
C10_Witness ==
    /\ last.op = "rewind_to"
    /\ Len(blocks) = 2
    /\ last.snap.block_idx = 1
    /\ last.snap.offset > blocks[1].start_ptr
    /\ last.snap.offset < blocks[1].end_ptr

\* the effect of reset() on the blocks bs, giving bs2
ResetFrame(bs, bs2) ==
    /\ Len(bs2) = Len(bs)
    /\ \A i \in 1..Len(bs) :
          /\ bs2[i].start_ptr = bs[i].start_ptr
          /\ bs2[i].end_ptr = bs[i].end_ptr
          /\ bs2[i].size = bs[i].size
          /\ bs2[i].curr_ptr = bs[i].start_ptr
    /\ Used(bs2) = 0

\* C11: reset() puts every cursor on its start (bytes-used 0) and keeps
\* the number of blocks and every start, end and size; the allocation
\* that follows is placed at the start of block 0 whenever the free bytes
\* of block 0 strictly exceed its size.
C11_ResetThenReuse ==
    [][ /\ Reset => ResetFrame(blocks, blocks')
        /\ \A l \in Layouts :
             (/\ last.op = "reset"
              /\ ~halted
              /\ TryAlloc(l.size, l.align)
              /\ blocks[1].end_ptr - blocks[1].curr_ptr > l.size)
                => /\ last'.res = "ok"
                   /\ blocks' = [blocks EXCEPT
                                   ![1].curr_ptr = blocks[1].start_ptr + l.size] ]_vars

IsPowerOfTwo(n) == \E k \in 0..PtrBits : n = 2 ^ k

\* C13: the start of a block whose size is a power of two is a multiple
\* of that size.
C13_StartIsMultipleOfSize ==
    \A i \in 1..Len(blocks) :
        IsPowerOfTwo(blocks[i].size) => blocks[i].start_ptr % blocks[i].size = 0

\* C15: the blocks are never empty; no step lowers the number of blocks,
\* moves an existing block to another index or changes its start, end or
\* size, and no step changes block_size.
C15_BlocksAppendOnly ==
    [][ /\ Len(blocks) >= 1
        /\ Len(blocks') >= Len(blocks)
        /\ \A i \in 1..Len(blocks) :
              /\ blocks'[i].start_ptr = blocks[i].start_ptr
              /\ blocks'[i].end_ptr = blocks[i].end_ptr
              /\ blocks'[i].size = blocks[i].size
        /\ block_size' = block_size ]_vars

\* a scope that added a block has returned: the block is still there
C15_Witness ==
    /\ last.op = "scope_exit"
    /\ last.snap.block_idx = 1
    /\ Len(blocks) = 2
    /\ blocks[2].curr_ptr = blocks[2].start_ptr

\* C16: when try_get_block selects an existing block for a request, the
\* Block::alloc in that block succeeds.
C16_SelectedBlockAccepts ==
    [][ \A l \in Layouts :
          (Returns(l) /\ TryGetBlock(blocks, vec_base, l.size) # 0)
             => last'.res = "ok" ]_vars

\* C17: remaining() returns end - cursor for every block, wherever the
\* Block struct is stored.
C17_RemainingIsEndMinusCursor ==
    \A i \in 1..Len(blocks) :
        /\ ~RemainingOverflows(blocks[i], CurrPtrCellAddr(vec_base, i))
        /\ Remaining(blocks[i], CurrPtrCellAddr(vec_base, i))
              = blocks[i].end_ptr - blocks[i].curr_ptr

\* C14: right after reset_zeroed(), before any other call, every byte of
\* every block reads zero and every cursor is on its start.
C14_ResetZeroed ==
    last.op = "reset_zeroed" =>
        /\ Len(mem) = Len(blocks)
        /\ \A i \in 1..Len(blocks) :
              /\ Len(mem[i]) = blocks[i].size
              /\ \A k \in 1..Len(mem[i]) : mem[i][k] = "zero"
              /\ blocks[i].curr_ptr = blocks[i].start_ptr

\* reset_zeroed() has run on an arena of two blocks
C14_Witness ==
    /\ last.op = "reset_zeroed"
    /\ Len(blocks) = 2
    /\ \A i \in 1..2 : mem[i][blocks[i].size] = "zero"

\* C18: no byte belongs to two regions that successful allocations
\* returned and that no reset, rewind_to or scope exit has discarded since;
\* a region allocated before a snapshot is among those after a rewind to
\* that snapshot.
C18_LiveRegionsDisjoint ==
    \A a \in BagToSet(live) : CopiesIn(a, live) = 1

\* an allocation has been served while regions of both blocks are live,
\* two of them apart in one block
C18_Witness ==
    /\ last.op = "try_alloc"
    /\ last.res = "ok"
    /\ Len(blocks) = 2
    /\ \A i \in 1..2 : \E a \in BagToSet(live) :
          blocks[i].start_ptr <= a /\ a < blocks[i].end_ptr
    /\ \E a \in BagToSet(live) :
          ~BagIn(a + 1, live) /\ BagIn(a + 2, live)

\* C12: on a fresh arena whose block is larger than a value and a string
\* together, alloc(value) and then alloc_str(string) both return, bytes
\* used is the sum of the two sizes, the string lies right after the value
\* in the first block, and the capacity is still the size of that one
\* block.
C12_ValueThenString ==
    main.items + main.s_len < block_size =>
        /\ main.pc # "panicked"
        /\ main.pc \in {"assert", "done"} =>
              /\ ArenaLen(blocks) = main.items + main.s_len
              /\ Len(blocks) = 1
              /\ blocks[1].curr_ptr = blocks[1].start_ptr + main.items + main.s_len
              /\ ArenaCap(blocks) = block_size

\* C19: rewind_to with a snapshot whose block index is past the end of
\* the blocks returns without a panic and leaves the number of blocks and
\* every cursor as they were.
C19_OutOfRangeRewindIsNoOp ==
    [][ RewindToForeign =>
          /\ blocks' = blocks
          /\ halted' = halted
          /\ last'.res = "ok" ]_vars

\* such a rewind has run on an arena of two blocks, both in use
C19_Witness ==
    /\ last.op = "rewind_to"
    /\ last.snap.block_idx > Len(blocks)
    /\ Len(blocks) = 2
    /\ \A i \in 1..2 : blocks[i].curr_ptr > blocks[i].start_ptr

\* C20: once the arena is dropped, every block's buffer has been passed to
\* dealloc exactly once, with the layout Block::new requested it with.
C20_ReleasedWithItsLayout ==
    ~Owned =>
        /\ Len(deallocs) = Len(blocks)
        /\ \A i \in 1..Len(blocks) :
              /\ deallocs[i].ptr = blocks[i].start_ptr
              /\ deallocs[i].layout = BlockNewLayout(blocks[i].size)
        /\ \A i, j \in 1..Len(deallocs) :
              i # j => deallocs[i].ptr # deallocs[j].ptr

====
